---------------------------- MODULE Spec2Model ----------------------------
(***************************************************************************)
(* A model of the Dyson-MCP server: the live feed client (RealTimeStream), *)
(* the archive reader (SaveFileParser), the state selector and the five    *)
(* tool operations of server.py, and the three analyzers as pure           *)
(* functions over a FactoryState.                                          *)
(*                                                                         *)
(* The client and the server run on one asyncio event loop: code between   *)
(* two awaits is atomic, so every action below is one such segment.        *)
(* Exceptions are values: an outcome is [kind, exc, val].                  *)
(***************************************************************************)
EXTENDS Integers, Sequences, FiniteSets, TLC

(***************************************************************************)
(* Bounds of the model.                                                    *)
(***************************************************************************)
NumCallers == 2      \* coroutines that call the client or the tools
MaxConns == 2        \* connections the endpoint accepts in one run
MaxFrames == 2       \* frames the endpoint sends in one run
PollTicks == 1       \* sleeps of the poll loop before its budget is spent

Callers == 1..NumCallers
ConnIds == 1..MaxConns

VARIABLES
  websocket,      \* RealTimeStream.websocket: 0 (None) or a connection
  latest_state,   \* RealTimeStream.latest_state: NoState (None) or a FactoryState
  _receive_task,  \* RealTimeStream._receive_task: 0 (None) or a task
  _connected,     \* RealTimeStream._connected
  conn,           \* the transport: each connection's status
  task,           \* each receive-loop task: its status and the connection it iterates
  nframes,        \* frames delivered so far
  save_dir,       \* SaveFileParser.save_dir: "none" or "dir"
  pc,             \* where each caller is suspended
  op,             \* the operation each caller runs (or ran last)
  args,           \* the arguments of a tool call in progress
  elapsed,        \* get_current_state's local: sleeps done by the poll loop
  attempts,       \* history: connect() attempts made by the caller's current call
  closing,        \* close()'s local: the websocket whose close() is awaited
  sel,            \* _get_factory_state's progress in the caller's current tool call
  last,           \* history: the call that returned last, with what it returned
  planets,        \* the FactoryState handed to an analyzer (analyzer specifications)
  report,         \* the analyzer's report (analyzer specifications)
  raw             \* the record handed to from_realtime_data (decoder specification)

streamVars == <<websocket, latest_state, _receive_task, _connected>>
netVars == <<conn, task, nframes>>
callVars == <<pc, op, args, elapsed, attempts, closing, sel, last>>
pureVars == <<planets, report, raw>>
vars == <<streamVars, netVars, save_dir, callVars, pureVars>>

(***************************************************************************)
(* Values.                                                                 *)
(***************************************************************************)
\* A FactoryState as the client and the server see it: where it came from.
\* src "live": decoded from frame `id` of connection `conn`; src "save": the
\* state parse_file returns; np is its number of planets.
NoState == [src |-> "none", conn |-> 0, id |-> 0, np |-> 0]
LiveState(c, k) == [src |-> "live", conn |-> c, id |-> k, np |-> 1]

NoTask == [st |-> "none", ws |-> 0]

Outcome(kind, exc, msg, val) == [kind |-> kind, exc |-> exc, msg |-> msg, val |-> val]
Value(s) == Outcome("value", "", "", s)
Raise(e, m) == Outcome("raise", e, m, NoState)
NoOutcome == Outcome("none", "", "", NoState)

\* A file as parse_file sees it, and a listing of the save directory.
NoFile == [exists |-> FALSE, suffix |-> "", content |-> "none", mtime |-> 0]
NoDir == [exists |-> FALSE, files |-> {}]

NoRet == [kind |-> "none", exc |-> "", msg |-> "", val |-> NoState, parts |-> {}]
NoSel == [top |-> FALSE, source |-> "none", plan |-> <<>>, tried |-> {}, out |-> NoOutcome]
NoArgs == [file |-> NoFile, type |-> "none", faults |-> {}, dir |-> NoDir]
NoParse == [file |-> NoFile, out |-> NoOutcome]
NoCall == [op |-> "none", args |-> NoArgs, ret |-> NoRet, attempts |-> 0, polls |-> 0,
           sel |-> NoSel, parse |-> NoParse]

(***************************************************************************)
(* RealTimeStream (data_sources/realtime_stream.py).                       *)
(***************************************************************************)
\* is_connected(): the flag is set and a state has been received.
is_connected == _connected /\ latest_state # NoState

\* The tasks that are iterating connection c right now.
LoopsOn(c) == {t \in ConnIds : task[t].st = "running" /\ task[t].ws = c}

\* The connection a successful websockets.connect() returns: the next unused one.
NextConn == CHOOSE c \in ConnIds : conn[c] = "unused" /\ \A d \in 1..(c - 1) : conn[d] # "unused"

\* A connect() whose except branch forgets the flag.
FlagKeptAfterConnectFailure == _connected

\* The flag connect()'s except branch leaves behind (line 39).
FlagAfterConnectFailure == FALSE

\* A loop whose except branch forgets the flag.
FlagKeptAfterLoopError == _connected

\* The flag the loop's except branch leaves behind (line 53).
FlagAfterLoopError == FALSE

\* Whether the loop's `async for` ends by an exception when the connection
\* is closed with status s: websockets ends the iteration normally on a
\* clean close (ConnectionClosedOK) and raises ConnectionClosedError otherwise.
IterationRaises(s) == s = "closed_err"

\* The tasks close() cancels (lines 79-80): the one _receive_task names.
TasksCancelledByClose == IF _receive_task = 0 THEN {} ELSE {_receive_task}

\* Task.cancel(): a task not yet finished gets CancelledError at its next step
\* (a BaseException, which the loop's `except Exception` does not catch).
Cancel(t) == IF t.st \in {"pending", "running"} THEN [t EXCEPT !.st = "cancelled"] ELSE t

(***************************************************************************)
(* SaveFileParser (data_sources/save_parser.py).                           *)
(***************************************************************************)
\* FactoryState.from_save_data: an empty state, whatever the save holds.
from_save_data(data) == [src |-> "save", conn |-> 0, id |-> 0, np |-> 0]

\* str.lower() on the suffixes the model uses.
Lower(sfx) == IF sfx = ".DSV" THEN ".dsv" ELSE sfx

\* parse_file: the two checks, then the placeholder body of the try block,
\* which reads nothing of the file and cannot raise.
parse_file(f) ==
  IF ~f.exists THEN Raise("FileNotFoundError", "Save file not found")
  ELSE IF Lower(f.suffix) # ".dsv" THEN Raise("ValueError", "Invalid file type")
  ELSE Value(from_save_data(<<>>))

\* save_dir.glob("*.dsv") and max(..., key=st_mtime).
Glob(d) == {f \in d.files : f.suffix = ".dsv"}
Latest(S) == CHOOSE f \in S : \A g \in S : g.mtime <= f.mtime

\* get_latest_state on a directory that looks like d at the time of the call.
get_latest_state(d) ==
  IF save_dir = "none" \/ ~d.exists THEN Raise("FileNotFoundError", "DSP save directory not found")
  ELSE IF Glob(d) = {} THEN Raise("FileNotFoundError", "No save files found")
  ELSE parse_file(Latest(Glob(d)))

\* The parse_file call get_latest_state makes, if it makes one.
LatestParse(d) ==
  IF save_dir = "none" \/ ~d.exists \/ Glob(d) = {} THEN NoParse
  ELSE [file |-> Latest(Glob(d)), out |-> parse_file(Latest(Glob(d)))]

(***************************************************************************)
(* The server (server.py): the tools' try blocks and except clauses.       *)
(***************************************************************************)
StateTools == {"analyze_production_bottlenecks", "analyze_power_grid",
               "analyze_logistics_saturation", "get_factory_snapshot"}
Tools == StateTools \cup {"load_save_analysis"}
Analyzers == {"production", "power", "logistics"}
AnalysisTypes == {"production", "power", "logistics", "full"}

\* Every exception the model raises is an Exception (none is a BaseException).
ExceptionClasses == {"ConnectionError", "TimeoutError", "FileNotFoundError", "ValueError", "Exception"}

Report(parts, s) == [kind |-> "report", exc |-> "", msg |-> "", val |-> s, parts |-> parts]
Raised(e, m) == [kind |-> "raise", exc |-> e, msg |-> m, val |-> NoState, parts |-> {}]
Error(k, m) == [kind |-> "error", exc |-> k, msg |-> m, val |-> NoState, parts |-> {}]

\* One analyzer's analyze(): its report, or the exception of an internal fault.
Analyze(name, s, faults) ==
  IF name \in faults THEN Raised("Exception", "analyzer fault") ELSE Report({name}, s)

\* The dict display of load_save_analysis's `full` branch (lines 233-237): the
\* three awaits are evaluated in order inside one expression, so the first
\* exception leaves the expression and no dict is built.
FullAnalysis(s, faults) ==
  LET prod == Analyze("production", s, faults)
      pow == Analyze("power", s, faults)
      logi == Analyze("logistics", s, faults)
  IN  IF prod.kind = "raise" THEN prod
      ELSE IF pow.kind = "raise" THEN pow
      ELSE IF logi.kind = "raise" THEN logi
      ELSE Report(prod.parts \cup pow.parts \cup logi.parts, s)

\* The try block of a tool, given what _get_factory_state (or parse_file) produced.
ToolBody(tool, a, so) ==
  IF so.kind = "raise" THEN Raised(so.exc, so.msg)
  ELSE CASE tool = "analyze_production_bottlenecks" -> Analyze("production", so.val, a.faults)
         [] tool = "analyze_power_grid" -> Analyze("power", so.val, a.faults)
         [] tool = "analyze_logistics_saturation" -> Analyze("logistics", so.val, a.faults)
         [] tool = "get_factory_snapshot" -> Report({"snapshot"}, so.val)
         [] OTHER -> IF a.type \in {"production", "power", "logistics"}
                     THEN Analyze(a.type, so.val, a.faults)
                     ELSE FullAnalysis(so.val, a.faults)

\* Tools that catch only the exception they name, with no `except Exception`.
HandlersWithoutCatchAll(tool) ==
  CASE tool = "analyze_production_bottlenecks" -> <<<<"ConnectionError", "game_not_running">>>>
    [] tool = "load_save_analysis" -> <<<<"FileNotFoundError", "file_not_found">>>>
    [] OTHER -> <<>>

\* The handlers of each tool's except clauses, in order: <<class caught, error kind>>.
Handlers(tool) ==
  CASE tool = "analyze_production_bottlenecks" ->
         <<<<"ConnectionError", "game_not_running">>, <<"Exception", "analysis_failed">>>>
    [] tool = "analyze_power_grid" -> <<<<"Exception", "analysis_failed">>>>
    [] tool = "analyze_logistics_saturation" -> <<<<"Exception", "analysis_failed">>>>
    [] tool = "get_factory_snapshot" -> <<<<"Exception", "snapshot_failed">>>>
    [] OTHER -> <<<<"FileNotFoundError", "file_not_found">>, <<"Exception", "parse_failed">>>>

\* `except cls` catches e.
Catches(cls, e) == e = cls \/ (cls = "Exception" /\ e \in ExceptionClasses)

\* The message of the error object: str(e), but a fixed text for game_not_running.
ErrorMessage(kind, m) == IF kind = "game_not_running" THEN "Could not connect to game" ELSE m

\* What the tool returns: the try block's report, or the error object of the
\* first handler that catches; an exception no handler catches leaves the tool.
ToolReturn(tool, a, so) ==
  LET b == ToolBody(tool, a, so)
      hs == Handlers(tool)
      hit == {i \in 1..Len(hs) : Catches(hs[i][1], b.exc)}
      first == CHOOSE i \in hit : \A j \in hit : i <= j
  IN  IF b.kind # "raise" THEN b
      ELSE IF hit = {} THEN b
      ELSE Error(hs[first][2], ErrorMessage(hs[first][2], b.msg))

\* A selector that falls back to the other source when the first one raises.
SourcesWithFallback(connected) ==
  IF connected THEN <<"live", "archive">> ELSE <<"archive", "live">>

\* _get_factory_state (lines 32-39): the sources it goes through, in order.
\* The next one would be tried only if the one before raised: the code names
\* one source, chosen by is_connected() at the top of the call.
SourcesToTry(connected) == IF connected THEN <<"live">> ELSE <<"archive">>

\* What a direct call of the client returns.
ClientRet(o) == [NoRet EXCEPT !.kind = o.kind, !.exc = o.exc, !.msg = o.msg, !.val = o.val]

(***************************************************************************)
(* Calls: a caller is idle, or suspended at an await of the call it runs.  *)
(***************************************************************************)
\* The caller suspends at pcv, with its locals as given.
Suspend(p, pcv, opn, a, att, el, cl, s) ==
  /\ pc' = [pc EXCEPT ![p] = pcv]
  /\ op' = [op EXCEPT ![p] = opn]
  /\ args' = [args EXCEPT ![p] = a]
  /\ attempts' = [attempts EXCEPT ![p] = att]
  /\ elapsed' = [elapsed EXCEPT ![p] = el]
  /\ closing' = [closing EXCEPT ![p] = cl]
  /\ sel' = [sel EXCEPT ![p] = s]
  /\ last' = last

\* The caller's call returns (or raises): its locals are gone, rec tells what it did.
Done(p, rec) ==
  /\ pc' = [pc EXCEPT ![p] = "idle"]
  /\ op' = [op EXCEPT ![p] = "none"]
  /\ args' = [args EXCEPT ![p] = NoArgs]
  /\ attempts' = [attempts EXCEPT ![p] = 0]
  /\ elapsed' = [elapsed EXCEPT ![p] = 0]
  /\ closing' = [closing EXCEPT ![p] = 0]
  /\ sel' = [sel EXCEPT ![p] = NoSel]
  /\ last' = rec

\* The record of a finished call: o is what the client, _get_factory_state or
\* parse_file handed to the caller; a tool turns it into its own result.
CallRecord(opn, a, att, el, s, prs, o) ==
  [op |-> opn, args |-> [a EXCEPT !.dir = NoDir, !.file = NoFile],
   ret |-> IF opn \in Tools THEN ToolReturn(opn, a, o) ELSE ClientRet(o),
   attempts |-> att, polls |-> el,
   sel |-> IF opn \in StateTools THEN [s EXCEPT !.out = o] ELSE NoSel,
   parse |-> prs]

\* get_current_state hands o to its caller.  In a tool call that is
\* _get_factory_state, which goes on to the archive only if SourcesToTry
\* named it after the live client.
GcsFinish(p, opn, a, att, el, s, o) ==
  IF opn \in StateTools /\ o.kind = "raise" /\ s.plan # <<>>
  THEN Done(p, CallRecord(opn, a, att, el,
                          [s EXCEPT !.tried = @ \cup {Head(s.plan)}, !.plan = Tail(@)],
                          LatestParse(a.dir), get_latest_state(a.dir)))
  ELSE Done(p, CallRecord(opn, a, att, el, s, NoParse, o))

\* get_current_state, lines 66-75: the head of the poll loop after el sleeps.
PollHead(p, opn, a, att, el, s) ==
  IF latest_state = NoState /\ el < PollTicks
  THEN Suspend(p, "poll", opn, a, att, el, 0, s)
  ELSE IF latest_state = NoState
       THEN GcsFinish(p, opn, a, att, el, s, Raise("TimeoutError", "No data received from game"))
       ELSE GcsFinish(p, opn, a, att, el, s, Value(latest_state))

\* get_current_state, lines 61-62: connect() is awaited only if not connected.
GcsEnter(p, opn, a, s) ==
  IF is_connected
  THEN PollHead(p, opn, a, 0, 0, s)
  ELSE Suspend(p, "connect", opn, a, 1, 0, 0, s)

(***************************************************************************)
(* Actions of the client.                                                  *)
(***************************************************************************)
\* A caller calls connect(): it suspends in websockets.connect (line 28).
ApiConnect(p) ==
  /\ pc[p] = "idle"
  /\ Suspend(p, "connect", "connect", NoArgs, 1, 0, 0, NoSel)
  /\ UNCHANGED <<streamVars, netVars, save_dir, pureVars>>

\* A caller calls get_current_state().
ApiGetCurrentState(p) ==
  /\ pc[p] = "idle"
  /\ GcsEnter(p, "get_current_state", NoArgs, NoSel)
  /\ UNCHANGED <<streamVars, netVars, save_dir, pureVars>>

\* websockets.connect returns a connection: lines 28-36, then the caller's code.
ConnectOk(p) ==
  /\ pc[p] = "connect"
  /\ \E c \in ConnIds : conn[c] = "unused"
  /\ websocket' = NextConn
  /\ conn' = [conn EXCEPT ![NextConn] = "open"]
  /\ task' = [task EXCEPT ![NextConn] = [st |-> "pending", ws |-> 0]]
  /\ _receive_task' = NextConn
  /\ _connected' = TRUE
  /\ IF op[p] = "connect"
     THEN Done(p, CallRecord("connect", NoArgs, attempts[p], 0, NoSel, NoParse,
                             Outcome("true", "", "", NoState)))
     ELSE PollHead(p, op[p], args[p], attempts[p], 0, sel[p])
  /\ UNCHANGED <<latest_state, nframes, save_dir, pureVars>>

\* websockets.connect raises: lines 37-40, then the caller's code (line 63).
ConnectFail(p) ==
  /\ pc[p] = "connect"
  /\ _connected' = FlagAfterConnectFailure
  /\ IF op[p] = "connect"
     THEN Done(p, CallRecord("connect", NoArgs, attempts[p], 0, NoSel, NoParse,
                             Outcome("false", "", "", NoState)))
     ELSE GcsFinish(p, op[p], args[p], attempts[p], 0, sel[p],
                    Raise("ConnectionError", "Cannot connect to game"))
  /\ UNCHANGED <<websocket, latest_state, _receive_task, netVars, save_dir, pureVars>>

\* asyncio.sleep(0.1) returns: elapsed grows and the loop head is evaluated again.
PollWake(p) ==
  /\ pc[p] = "poll"
  /\ PollHead(p, op[p], args[p], attempts[p], elapsed[p] + 1, sel[p])
  /\ UNCHANGED <<streamVars, netVars, save_dir, pureVars>>

\* A caller calls close(): lines 79-82 up to the await, or all of it when
\* there is no websocket to close.
ApiClose(p) ==
  /\ pc[p] = "idle"
  /\ task' = [t \in ConnIds |-> IF t \in TasksCancelledByClose THEN Cancel(task[t]) ELSE task[t]]
  /\ IF websocket # 0
     THEN /\ Suspend(p, "close", "close", NoArgs, 0, 0, websocket, NoSel)
          /\ UNCHANGED _connected
     ELSE /\ _connected' = FALSE
          /\ Done(p, CallRecord("close", NoArgs, 0, 0, NoSel, NoParse,
                                Outcome("closed", "", "", NoState)))
  /\ UNCHANGED <<websocket, latest_state, _receive_task, conn, nframes, save_dir, pureVars>>

\* websocket.close() returns (the closing handshake is over): line 83.  A loop
\* still iterating that connection sees a clean close and ends.
CloseEnd(p) ==
  /\ pc[p] = "close"
  /\ conn' = [conn EXCEPT ![closing[p]] = IF @ = "open" THEN "closed_ok" ELSE @]
  /\ task' = [t \in ConnIds |-> IF t \in LoopsOn(closing[p])
                                THEN [task[t] EXCEPT !.st = "done"] ELSE task[t]]
  /\ _connected' = FALSE
  /\ Done(p, CallRecord("close", NoArgs, 0, 0, NoSel, NoParse,
                        Outcome("closed", "", "", NoState)))
  /\ UNCHANGED <<websocket, latest_state, _receive_task, nframes, save_dir, pureVars>>

\* The event loop runs a new receive task for the first time: line 47 reads
\* self.websocket and starts to iterate it.  A connection that some loop is
\* already iterating refuses a second recv(); a closed one ends the
\* iteration at once.
StartLoop(t) ==
  /\ task[t].st = "pending"
  /\ LET ws == websocket
         ends == conn[ws] # "open"
         raises == IF ends THEN IterationRaises(conn[ws]) ELSE LoopsOn(ws) # {}
     IN  /\ task' = [task EXCEPT ![t] = [st |-> IF ends \/ raises THEN "done" ELSE "running",
                                         ws |-> ws]]
         /\ _connected' = IF raises THEN FlagAfterLoopError ELSE _connected
  /\ UNCHANGED <<websocket, latest_state, _receive_task, conn, nframes, save_dir, callVars, pureVars>>

\* The frames the endpoint sends: one that decodes, one that json.loads rejects.
FrameKinds == {"state", "bad_json"}

\* A frame arrives on connection c and the loop iterating it runs lines 48-49.
Deliver(c, k) ==
  /\ conn[c] = "open"
  /\ LoopsOn(c) # {}
  /\ nframes < MaxFrames
  /\ nframes' = nframes + 1
  /\ IF k = "state"
     THEN /\ latest_state' = LiveState(c, nframes + 1)
          /\ UNCHANGED <<task, _connected>>
     ELSE /\ task' = [t \in ConnIds |-> IF t \in LoopsOn(c)
                                        THEN [task[t] EXCEPT !.st = "done"] ELSE task[t]]
          /\ _connected' = FlagAfterLoopError
          /\ UNCHANGED latest_state
  /\ UNCHANGED <<websocket, _receive_task, conn, save_dir, callVars, pureVars>>

\* Connection c ends: the peer closes it cleanly ("closed_ok"), or the
\* transport fails or a pong is missed ("closed_err").  The loop iterating it
\* leaves its `async for`, by an exception or not (lines 47, 51-53).
Terminate(c, how) ==
  /\ conn[c] = "open"
  /\ conn' = [conn EXCEPT ![c] = how]
  /\ task' = [t \in ConnIds |-> IF t \in LoopsOn(c)
                                THEN [task[t] EXCEPT !.st = "done"] ELSE task[t]]
  /\ _connected' = IF LoopsOn(c) # {} /\ IterationRaises(how) THEN FlagAfterLoopError ELSE _connected
  /\ UNCHANGED <<websocket, latest_state, _receive_task, nframes, save_dir, callVars, pureVars>>

(***************************************************************************)
(* Actions of the server: one tool call.                                   *)
(***************************************************************************)
\* Inputs of the tool calls: the files load_save_analysis is pointed at, the
\* save directory as get_latest_state finds it, and the analyzers that fault.
SaveFiles ==
  {[NoFile EXCEPT !.suffix = ".dsv"],
   [exists |-> TRUE, suffix |-> ".txt", content |-> "empty_save", mtime |-> 1],
   [exists |-> TRUE, suffix |-> ".dsv", content |-> "empty_save", mtime |-> 1],
   [exists |-> TRUE, suffix |-> ".dsv", content |-> "corrupt", mtime |-> 1],
   [exists |-> TRUE, suffix |-> ".DSV", content |-> "save_with_planets", mtime |-> 1]}
OlderSave == [exists |-> TRUE, suffix |-> ".dsv", content |-> "corrupt", mtime |-> 1]
NewerSave == [exists |-> TRUE, suffix |-> ".dsv", content |-> "save_with_planets", mtime |-> 2]
Directories ==
  {NoDir, [exists |-> TRUE, files |-> {}], [exists |-> TRUE, files |-> {OlderSave, NewerSave}]}

\* The analyzers a tool call runs.
AnalyzersOf(tool, type) ==
  CASE tool = "analyze_production_bottlenecks" -> {"production"}
    [] tool = "analyze_power_grid" -> {"power"}
    [] tool = "analyze_logistics_saturation" -> {"logistics"}
    [] tool = "get_factory_snapshot" -> {}
    [] OTHER -> IF type \in Analyzers THEN {type} ELSE Analyzers

\* At most one of the analyzers the call runs has an internal fault.
Faults(tool, type) == {{}} \cup {{x} : x \in AnalyzersOf(tool, type)}

\* A tool that asks _get_factory_state for the state (lines 64, 103, 135, 166).
ToolCall(p, tool, faults, d) ==
  /\ pc[p] = "idle"
  /\ faults \in Faults(tool, "none")
  /\ LET a == [NoArgs EXCEPT !.faults = faults, !.dir = d]
         plan == SourcesToTry(is_connected)
         s == [top |-> is_connected, source |-> Head(plan), plan |-> Tail(plan),
               tried |-> {Head(plan)}, out |-> NoOutcome]
         o == get_latest_state(d)
     IN  IF Head(plan) = "live"
         THEN GcsEnter(p, tool, a, s)
         ELSE IF o.kind = "raise" /\ s.plan # <<>>
              THEN GcsEnter(p, tool, a, [s EXCEPT !.tried = @ \cup {Head(s.plan)}, !.plan = Tail(@)])
              ELSE Done(p, CallRecord(tool, a, 0, 0, s, LatestParse(d), o))
  /\ UNCHANGED <<streamVars, netVars, save_dir, pureVars>>

\* load_save_analysis (lines 206-242): parse_file, then the analyzers.
LoadSaveAnalysis(p, f, type, faults) ==
  /\ pc[p] = "idle"
  /\ faults \in Faults("load_save_analysis", type)
  /\ LET a == [NoArgs EXCEPT !.file = f, !.type = type, !.faults = faults]
     IN  Done(p, CallRecord("load_save_analysis", a, 0, 0, NoSel,
                            [file |-> f, out |-> parse_file(f)], parse_file(f)))
  /\ UNCHANGED <<streamVars, netVars, save_dir, pureVars>>

(***************************************************************************)
(* Specifications.                                                         *)
(***************************************************************************)
NoReport == [kind |-> "none"]

\* A record of a live frame after json.loads: Planets is missing or a list of
\* <<key, planet_data>> entries in the order of the dict; Timestamp is missing
\* or a number.  No record is handed over yet.
NoRaw == [given |-> FALSE, has_planets |-> FALSE, Planets |-> <<>>, Timestamp |-> "missing"]

Startup ==
  /\ websocket = 0
  /\ latest_state = NoState
  /\ _receive_task = 0
  /\ _connected = FALSE
  /\ conn = [c \in ConnIds |-> "unused"]
  /\ task = [c \in ConnIds |-> NoTask]
  /\ nframes = 0
  /\ pc = [p \in Callers |-> "idle"]
  /\ op = [p \in Callers |-> "none"]
  /\ args = [p \in Callers |-> NoArgs]
  /\ elapsed = [p \in Callers |-> 0]
  /\ attempts = [p \in Callers |-> 0]
  /\ closing = [p \in Callers |-> 0]
  /\ sel = [p \in Callers |-> NoSel]
  /\ last = NoCall
  /\ planets = <<>>
  /\ report = NoReport
  /\ raw = NoRaw

\* The client on its own: no save directory was detected.
Init == Startup /\ save_dir = "none"

\* States of the client a tool call can find, each reachable under Spec:
\* never connected; connected and waiting for the first frame; connected with
\* a frame received; disconnected by a transport error after a frame; closed
\* cleanly by the peer after a frame.
ClientSnapshot(ws, ls, rt, cf, cs, ts, nf) ==
  /\ websocket = ws
  /\ latest_state = ls
  /\ _receive_task = rt
  /\ _connected = cf
  /\ conn = [c \in ConnIds |-> IF c = 1 THEN cs ELSE "unused"]
  /\ task = [c \in ConnIds |-> IF c = 1 THEN ts ELSE NoTask]
  /\ nframes = nf

NeverConnected == ClientSnapshot(0, NoState, 0, FALSE, "unused", NoTask, 0)
AwaitingFirstFrame == ClientSnapshot(1, NoState, 1, TRUE, "open", [st |-> "running", ws |-> 1], 0)
Receiving == ClientSnapshot(1, LiveState(1, 1), 1, TRUE, "open", [st |-> "running", ws |-> 1], 1)
LostConnection == ClientSnapshot(1, LiveState(1, 1), 1, FALSE, "closed_err", [st |-> "done", ws |-> 1], 1)
PeerClosed == ClientSnapshot(1, LiveState(1, 1), 1, TRUE, "closed_ok", [st |-> "done", ws |-> 1], 1)

NoCalls ==
  /\ pc = [p \in Callers |-> "idle"]
  /\ op = [p \in Callers |-> "none"]
  /\ args = [p \in Callers |-> NoArgs]
  /\ elapsed = [p \in Callers |-> 0]
  /\ attempts = [p \in Callers |-> 0]
  /\ closing = [p \in Callers |-> 0]
  /\ sel = [p \in Callers |-> NoSel]
  /\ last = NoCall

Quiet == NoCalls /\ planets = <<>> /\ report = NoReport /\ raw = NoRaw

\* The server when a tool is called: SaveFileParser's constructor found a save
\* directory or did not, and the client is in one of the states above.
InitTools ==
  /\ save_dir \in {"none", "dir"}
  /\ NeverConnected \/ AwaitingFirstFrame \/ Receiving \/ LostConnection \/ PeerClosed
  /\ Quiet

\* What the endpoint and the event loop do.
Environment ==
  \/ \E t \in ConnIds : StartLoop(t)
  \/ \E c \in ConnIds, k \in FrameKinds : Deliver(c, k)
  \/ \E c \in ConnIds, how \in {"closed_ok", "closed_err"} : Terminate(c, how)

\* A step of caller p in a call of the client.
ClientStep(p) ==
  \/ ApiConnect(p)
  \/ ApiGetCurrentState(p)
  \/ ApiClose(p)
  \/ ConnectOk(p)
  \/ ConnectFail(p)
  \/ PollWake(p)
  \/ CloseEnd(p)

\* The start of a tool call by caller p.
ToolStep(p) ==
  \/ \E tool \in StateTools, faults \in SUBSET Analyzers, d \in Directories : ToolCall(p, tool, faults, d)
  \/ \E f \in SaveFiles, type \in AnalysisTypes, faults \in SUBSET Analyzers : LoadSaveAnalysis(p, f, type, faults)

\* The client with one caller at a time.
Next == Environment \/ ClientStep(1)
Spec == Init /\ [][Next]_vars

\* The client under concurrent callers.
NextConcurrent == Environment \/ \E p \in Callers : ClientStep(p)
SpecConcurrent == Init /\ [][NextConcurrent]_vars

\* The server: one tool call after another.  A tool call that finds the
\* client in one of the states of InitTools returns without suspending, so it
\* leaves the client as it found it.
NextTools == ToolStep(1)
SpecTools == InitTools /\ [][NextTools]_vars

(***************************************************************************)
(* The FactoryState the analyzers read (models/factory_state.py).  Rates   *)
(* and megawatts are whole numbers here; a quotient is kept exact, as a    *)
(* fraction [n, d] with d > 0.                                             *)
(***************************************************************************)
Frac(n, d) == [n |-> n, d |-> d]
FracLess(x, y) == x.n * y.d < y.n * x.d
FracEq(x, y) == x.n * y.d = y.n * x.d
Whole(k) == Frac(k, 1)

\* AssemblerMetrics.__post_init__ (lines 35-40): production_rate / theoretical_max * 100.
Efficiency(a) ==
  IF a.theoretical_max > 0 THEN Frac(a.production_rate * 100, a.theoretical_max) ELSE Whole(0)

\* BeltMetrics.__post_init__ (lines 65-68): throughput / max_throughput * 100.
saturation_percent(b) ==
  IF b.max_throughput > 0 THEN Frac(b.throughput * 100, b.max_throughput) ELSE Whole(0)

\* PowerMetrics.__post_init__ (lines 51-52).
surplus_mw(pw) == pw.generation_mw - pw.consumption_mw

NoPower == [generation_mw |-> 0, consumption_mw |-> 0, present |-> FALSE]
Power(g, c) == [generation_mw |-> g, consumption_mw |-> c, present |-> TRUE]
Planet(pid) ==
  [planet_id |-> pid, production |-> <<>>, assemblers |-> <<>>, power |-> NoPower, belts |-> <<>>]

\* The planets a call selects (`if planet_id is not None and pid != planet_id: continue`);
\* planet_id 0 stands for None.
Selected(pl, planet_id) == planet_id = 0 \/ pl.planet_id = planet_id

(***************************************************************************)
(* BottleneckAnalyzer (tools/bottleneck_analyzer.py).                      *)
(***************************************************************************)
TopN == 10
CriticalPathN == 5

Bottleneck(type, a) ==
  [item_name |-> "unknown", bottleneck_type |-> type,
   severity |-> Frac(100 * Efficiency(a).d - Efficiency(a).n, Efficiency(a).d),
   affected_throughput |-> a.theoretical_max - a.production_rate]

\* An _analyze_assembler that looks at output_blocked first.
AnalyzeAssemblerBlockedFirst(a) ==
  IF a.output_blocked THEN <<Bottleneck("output_blocked", a)>>
  ELSE IF a.input_starved THEN <<Bottleneck("input_starvation", a)>>
  ELSE <<>>

\* _analyze_assembler (lines 87-117): the finding, or none.
AnalyzeAssembler(a) ==
  IF a.input_starved THEN <<Bottleneck("input_starvation", a)>>
  ELSE IF a.output_blocked THEN <<Bottleneck("output_blocked", a)>>
  ELSE <<>>

\* Lines 61-64: what the loop appends for one assembler.
FindingsOf(a) == IF FracLess(Efficiency(a), Whole(90)) THEN AnalyzeAssembler(a) ELSE <<>>

\* Lines 53-64: the findings in the order of detection, each with the planet
\* and the position of its assembler (history, not part of a Bottleneck).
RECURSIVE DetectIn(_, _, _)
DetectIn(pid, as, i) ==
  IF i > Len(as) THEN <<>>
  ELSE [k \in 1..Len(FindingsOf(as[i])) |-> [pid |-> pid, idx |-> i, b |-> FindingsOf(as[i])[k]]]
       \o DetectIn(pid, as, i + 1)

RECURSIVE Detect(_, _)
Detect(pls, planet_id) ==
  IF pls = <<>> THEN <<>>
  ELSE (IF Selected(Head(pls), planet_id)
        THEN DetectIn(Head(pls).planet_id, Head(pls).assemblers, 1) ELSE <<>>)
       \o Detect(Tail(pls), planet_id)

\* An insertion that puts the finding before those of equal severity.
RECURSIVE InsertBeforeTies(_, _)
InsertBeforeTies(sorted, x) ==
  IF sorted = <<>> THEN <<x>>
  ELSE IF ~FracLess(x.b.severity, Head(sorted).b.severity) THEN <<x>> \o sorted
  ELSE <<Head(sorted)>> \o InsertBeforeTies(Tail(sorted), x)

\* One step of list.sort(key=severity, reverse=True), which is stable: x goes
\* behind everything that is at least as severe.
RECURSIVE InsertBySeverity(_, _)
InsertBySeverity(sorted, x) ==
  IF sorted = <<>> THEN <<x>>
  ELSE IF FracLess(Head(sorted).b.severity, x.b.severity) THEN <<x>> \o sorted
  ELSE <<Head(sorted)>> \o InsertBySeverity(Tail(sorted), x)

\* Line 67.
RECURSIVE SortBySeverity(_)
SortBySeverity(fs) ==
  IF fs = <<>> THEN <<>>
  ELSE InsertBySeverity(SortBySeverity(SubSeq(fs, 1, Len(fs) - 1)), fs[Len(fs)])

\* A slice xs[:k].
Take(xs, k) == SubSeq(xs, 1, IF Len(xs) < k THEN Len(xs) ELSE k)

\* Line 72: len(bottlenecks).
BottlenecksFound(fs) == Len(fs)

\* BottleneckAnalyzer.analyze (lines 27-85).
AnalyzeBottlenecksReport(pls, planet_id, include_downstream) ==
  LET detected == Detect(pls, planet_id)
      sorted == SortBySeverity(detected)
  IN  [kind |-> "bottlenecks",
       planet_id |-> planet_id,
       detected |-> detected,
       planets_analyzed |-> Cardinality({i \in 1..Len(pls) : Selected(pls[i], planet_id)}),
       bottlenecks_found |-> BottlenecksFound(sorted),
       bottlenecks |-> [i \in 1..Len(Take(sorted, TopN)) |-> sorted[i].b],
       critical_path |-> IF include_downstream
                         THEN [i \in 1..Len(Take(sorted, CriticalPathN)) |-> sorted[i].b.item_name]
                         ELSE <<>>]

(***************************************************************************)
(* PowerAnalyzer (tools/power_analyzer.py).                                *)
(***************************************************************************)
NoRecommendation == [tier |-> "none", plants |-> 0]

\* A _generate_recommendation whose first tier takes a deficit of 10 MW too.
GenerateRecommendationOffByOne(pw) ==
  LET deficit == IF surplus_mw(pw) < 0 THEN -surplus_mw(pw) ELSE surplus_mw(pw)
  IN  IF deficit <= 10 THEN [tier |-> "thermal", plants |-> 1]
      ELSE IF deficit < 50 THEN [tier |-> "fusion", plants |-> (deficit \div 15) + 1]
      ELSE [tier |-> "high_capacity", plants |-> 0]

\* _generate_recommendation (lines 79-89); int(deficit / 15) truncates.
GenerateRecommendation(pw) ==
  LET deficit == IF surplus_mw(pw) < 0 THEN -surplus_mw(pw) ELSE surplus_mw(pw)
  IN  IF deficit < 10 THEN [tier |-> "thermal", plants |-> 1]
      ELSE IF deficit < 50 THEN [tier |-> "fusion", plants |-> (deficit \div 15) + 1]
      ELSE [tier |-> "high_capacity", plants |-> 0]

\* Lines 49-63: the entry of one planet that has power data.
PowerEntry(pl, include_accumulator_cycles) ==
  [planet_id |-> pl.planet_id,
   generation_mw |-> pl.power.generation_mw,
   consumption_mw |-> pl.power.consumption_mw,
   surplus_mw |-> surplus_mw(pl.power),
   status |-> IF surplus_mw(pl.power) >= 0 THEN "surplus" ELSE "deficit",
   recommendation |-> IF surplus_mw(pl.power) < 0
                      THEN GenerateRecommendation(pl.power) ELSE NoRecommendation,
   accumulator_charge |-> include_accumulator_cycles]

\* Lines 38-65: the entries of the selected planets that have power data.
RECURSIVE PowerEntries(_, _, _)
PowerEntries(pls, planet_id, acc) ==
  IF pls = <<>> THEN <<>>
  ELSE (IF Selected(Head(pls), planet_id) /\ Head(pls).power.present
        THEN <<PowerEntry(Head(pls), acc)>> ELSE <<>>)
       \o PowerEntries(Tail(pls), planet_id, acc)

RECURSIVE SumOf(_, _)
SumOf(es, field) == IF es = <<>> THEN 0 ELSE Head(es)[field] + SumOf(Tail(es), field)

\* _global_recommendations (lines 91-112); surplus_percent is compared exactly.
GlobalPowerRecommendations(generation, consumption) ==
  LET surplus == generation - consumption
      pct == IF consumption > 0 THEN Frac(surplus * 100, consumption) ELSE Whole(100)
  IN  IF surplus < 0 THEN <<"critical_deficit">>
      ELSE IF FracLess(pct, Whole(10)) THEN <<"warning_low_surplus", "add_capacity">>
      ELSE IF FracLess(Whole(50), pct) THEN <<"healthy_surplus">>
      ELSE <<>>

\* PowerAnalyzer.analyze (lines 14-77); deficits_found is counted in the loop,
\* once per entry whose surplus is negative.
AnalyzePowerReport(pls, planet_id, acc) ==
  LET es == PowerEntries(pls, planet_id, acc)
  IN  [kind |-> "power",
       planet_id |-> planet_id,
       total_generation_mw |-> SumOf(es, "generation_mw"),
       total_consumption_mw |-> SumOf(es, "consumption_mw"),
       net_surplus_mw |-> SumOf(es, "generation_mw") - SumOf(es, "consumption_mw"),
       planets_with_deficit |-> Cardinality({i \in 1..Len(es) : es[i].surplus_mw < 0}),
       planets |-> es,
       recommendations |-> GlobalPowerRecommendations(SumOf(es, "generation_mw"),
                                                      SumOf(es, "consumption_mw"))]

(***************************************************************************)
(* FactoryState.from_realtime_data (models/factory_state.py, lines 90-123). *)
(***************************************************************************)
\* int(planet_id_str): the keys that are integer strings, and their values.
IsIntString(key) == key \in {"1", "2", "3", "4"}
IntOf(key) == CASE key = "1" -> 1 [] key = "2" -> 2 [] key = "3" -> 3 [] OTHER -> 4

\* Lines 98-104: "Power" missing leaves power None; an empty "Power" record
\* takes 0 for every field; a full one (here 100 MW and 120 MW) is copied.
PowerOf(pdata) ==
  CASE pdata.Power = "missing" -> NoPower
    [] pdata.Power = "empty" -> Power(0, 0)
    [] OTHER -> Power(100, 120)

\* Lines 107-114: "Production" missing or empty adds nothing; an item record
\* without fields becomes the item "unknown" with zero rates.
ProductionOf(pdata) ==
  IF pdata.Production = "bare_item"
  THEN <<[item_name |-> "unknown", production_rate |-> 0, consumption_rate |-> 0,
          current_storage |-> 0]>>
  ELSE <<>>

\* Lines 94-116: the loop body for one entry.
PlanetOf(entry) ==
  [Planet(IntOf(entry[1])) EXCEPT !.power = PowerOf(entry[2]),
                                  !.production = ProductionOf(entry[2])]

\* from_realtime_data: int() raises ValueError at the first key that is not
\* an integer string, and nothing in the function catches it.
from_realtime_data(data) ==
  IF \E i \in 1..Len(data.Planets) : ~IsIntString(data.Planets[i][1])
  THEN [kind |-> "decoded", raised |-> TRUE, exc |-> "ValueError", timestamp |-> 0,
        planets |-> <<>>]
  ELSE [kind |-> "decoded", raised |-> FALSE, exc |-> "",
        timestamp |-> IF data.Timestamp = "missing" THEN 0 ELSE 1,
        planets |-> [i \in 1..Len(data.Planets) |-> PlanetOf(data.Planets[i])]]

(***************************************************************************)
(* LogisticsAnalyzer (tools/logistics_analyzer.py).                        *)
(***************************************************************************)
SaturatedN == 20
NearN == 10
SystematicFrom == 5
NearBand == 10

\* item_filter: None, or a list of item types (an empty list filters nothing:
\* `if item_filter and belt.item_type not in item_filter: continue`).
NoFilter == [given |-> FALSE, items |-> {}]
Filter(items) == [given |-> TRUE, items |-> items]
Skipped(b, item_filter) == item_filter.items # {} /\ b.item_type \notin item_filter.items

\* round(x, 1) of a non-negative quotient, in tenths; a quotient exactly
\* halfway between two tenths is rounded up here.
Round1(f) == (20 * f.n + f.d) \div (2 * f.d)

\* _detect_tier (lines 99-106) and _upgrade_recommendation (lines 88-97).
DetectTier(max_throughput) ==
  IF max_throughput <= 6 THEN "mk1" ELSE IF max_throughput <= 12 THEN "mk2" ELSE "mk3"

UpgradeRecommendation(b) ==
  CASE DetectTier(b.max_throughput) = "mk1" -> "upgrade_to_mk2"
    [] DetectTier(b.max_throughput) = "mk2" -> "upgrade_to_mk3"
    [] OTHER -> "parallel_lines"

\* A classification whose lower band starts above threshold - 10.
StatusStrictBand(b, threshold) ==
  IF ~FracLess(saturation_percent(b), Whole(threshold)) THEN "saturated"
  ELSE IF FracLess(Whole(threshold - NearBand), saturation_percent(b)) THEN "near_saturation"
  ELSE "none"

\* Lines 63-70: the if / elif on saturation_percent.
Status(b, threshold) ==
  IF ~FracLess(saturation_percent(b), Whole(threshold)) THEN "saturated"
  ELSE IF ~FracLess(saturation_percent(b), Whole(threshold - NearBand)) THEN "near_saturation"
  ELSE "none"

\* Lines 54-69: belt_data with its status.
BeltData(pid, b, threshold) ==
  [planet_id |-> pid, belt_id |-> b.belt_id, item |-> b.item_type,
   saturation |-> Round1(saturation_percent(b)),
   status |-> Status(b, threshold),
   recommendation |-> IF Status(b, threshold) = "saturated"
                      THEN UpgradeRecommendation(b) ELSE "none"]

\* Lines 49-70: the belts of one planet that get the given status, in order.
RECURSIVE PlaceBelts(_, _, _, _, _)
PlaceBelts(pid, bs, item_filter, threshold, status) ==
  IF bs = <<>> THEN <<>>
  ELSE (IF ~Skipped(Head(bs), item_filter) /\ Status(Head(bs), threshold) = status
        THEN <<BeltData(pid, Head(bs), threshold)>> ELSE <<>>)
       \o PlaceBelts(pid, Tail(bs), item_filter, threshold, status)

\* Lines 45-70: the list built for one status over the selected planets.
RECURSIVE Place(_, _, _, _, _)
Place(pls, planet_id, item_filter, threshold, status) ==
  IF pls = <<>> THEN <<>>
  ELSE (IF Selected(Head(pls), planet_id)
        THEN PlaceBelts(Head(pls).planet_id, Head(pls).belts, item_filter, threshold, status)
        ELSE <<>>)
       \o Place(Tail(pls), planet_id, item_filter, threshold, status)

\* Lines 73-74: list.sort(key=b["saturation"], reverse=True), stable, on the
\* rounded saturation.
RECURSIVE InsertBySaturation(_, _)
InsertBySaturation(sorted, x) ==
  IF sorted = <<>> THEN <<x>>
  ELSE IF Head(sorted).saturation < x.saturation THEN <<x>> \o sorted
  ELSE <<Head(sorted)>> \o InsertBySaturation(Tail(sorted), x)

RECURSIVE SortBySaturation(_)
SortBySaturation(bs) ==
  IF bs = <<>> THEN <<>>
  ELSE InsertBySaturation(SortBySaturation(SubSeq(bs, 1, Len(bs) - 1)), bs[Len(bs)])

\* Lines 127-131: item_counts, a dict in the order of first occurrence in the
\* list it is built from.
ItemCount(bs, item) == Cardinality({i \in 1..Len(bs) : bs[i].item = item})
FirstSeen(bs, item) == CHOOSE i \in 1..Len(bs) : bs[i].item = item /\ \A j \in 1..(i - 1) : bs[j].item # item

\* Line 134: max(item_counts, key=item_counts.get), the first key of the
\* dict that has the largest count.
WorstItem(bs) ==
  LET best == {i \in 1..Len(bs) :
                 /\ i = FirstSeen(bs, bs[i].item)
                 /\ \A j \in 1..Len(bs) : ItemCount(bs, bs[j].item) <= ItemCount(bs, bs[i].item)}
  IN  bs[CHOOSE i \in best : \A j \in best : i <= j].item

Note(kind, n, item) == [note |-> kind, n |-> n, item |-> item]

\* _global_recommendations (lines 108-137), given the list analyze passes.
GlobalLogisticsRecommendations(bs) ==
  IF Len(bs) = 0 THEN <<Note("healthy", 0, "")>>
  ELSE IF Len(bs) < SystematicFrom THEN <<Note("targeted", Len(bs), "")>>
  ELSE <<Note("systematic", Len(bs), ""),
         Note("most_congested", ItemCount(bs, WorstItem(bs)), WorstItem(bs))>>

\* LogisticsAnalyzer.analyze (lines 22-86).  placed_saturated and placed_near
\* are the two lists as the loop built them, before sorting and slicing.
AnalyzeLogisticsReport(pls, planet_id, item_filter, threshold) ==
  LET sat == Place(pls, planet_id, item_filter, threshold, "saturated")
      near == Place(pls, planet_id, item_filter, threshold, "near_saturation")
  IN  [kind |-> "logistics",
       planet_id |-> planet_id,
       item_filter |-> item_filter,
       threshold |-> threshold,
       placed_saturated |-> sat,
       placed_near |-> near,
       saturated_count |-> Len(sat),
       near_saturation_count |-> Len(near),
       saturated_belts |-> Take(SortBySaturation(sat), SaturatedN),
       near_saturation |-> Take(SortBySaturation(near), NearN),
       recommendations |-> GlobalLogisticsRecommendations(SortBySaturation(sat))]

(***************************************************************************)
(* The analyzers applied to factory states.  A FactoryState is a plain     *)
(* dataclass: its planets, their assemblers and their power readings are   *)
(* whatever the builder of the state put there, in that order.             *)
(***************************************************************************)
MaxPlanets == 2
MaxAssemblers == 2
MaxRun == 11
MaxOdd == 2

PlanetIds == 1..MaxPlanets

Assembler(rate, max, starved, blocked) ==
  [production_rate |-> rate, theoretical_max |-> max,
   input_starved |-> starved, output_blocked |-> blocked]

\* Assemblers at 40%, at exactly 90%, and with no theoretical maximum, under
\* every combination of the two flags.
Assemblers ==
  {Assembler(rm[1], rm[2], st, bl) :
     rm \in {<<40, 100>>, <<9, 10>>, <<5, 0>>}, st \in BOOLEAN, bl \in BOOLEAN}

\* Three assemblers for long lists: two of severity 60 with different causes
\* and one of severity 90.
Common == Assembler(4, 10, TRUE, FALSE)
Tied == Assembler(40, 100, FALSE, TRUE)
Severe == Assembler(10, 100, TRUE, FALSE)

\* Power readings with surplus 10 and 0 and deficits 5, 10, 20, 30, 49, 50.
PowerReadings == {Power(100, c) : c \in {90, 100, 105, 110, 120, 130, 149, 150}}

\* The number of assemblers in a list of planets.
RECURSIVE CountAssemblers(_)
CountAssemblers(pls) ==
  IF pls = <<>> THEN 0 ELSE Len(Head(pls).assemblers) + CountAssemblers(Tail(pls))

NumAssemblers == CountAssemblers(planets)

\* A planet is added to FactoryState.planets, with or without power data.
AddPlanet(pid, pw) ==
  /\ Len(planets) < MaxPlanets
  /\ \A i \in 1..Len(planets) : planets[i].planet_id # pid
  /\ planets' = Append(planets, [Planet(pid) EXCEPT !.power = pw])
  /\ report' = NoReport
  /\ UNCHANGED <<streamVars, netVars, save_dir, callVars, raw>>

\* An assembler is appended to the assemblers of the newest planet.
AddAssembler(a) ==
  /\ planets # <<>>
  /\ NumAssemblers < MaxAssemblers
  /\ planets' = [planets EXCEPT ![Len(planets)].assemblers = Append(@, a)]
  /\ report' = NoReport
  /\ UNCHANGED <<streamVars, netVars, save_dir, callVars, raw>>

\* A long list of assemblers: copies of Common, and at most MaxOdd others.
AppendCopy(a) ==
  /\ planets # <<>>
  /\ NumAssemblers < MaxRun
  /\ a # Common =>
       Cardinality({j \in 1..Len(planets[1].assemblers) :
                      planets[1].assemblers[j] # Common}) < MaxOdd
  /\ planets' = [planets EXCEPT ![Len(planets)].assemblers = Append(@, a)]
  /\ report' = NoReport
  /\ UNCHANGED <<streamVars, netVars, save_dir, callVars, raw>>

\* BottleneckAnalyzer.analyze(factory_state, planet_id, ..., include_downstream).
AnalyzeBottlenecks(planet_id, include_downstream) ==
  /\ report' = AnalyzeBottlenecksReport(planets, planet_id, include_downstream)
  /\ UNCHANGED <<streamVars, netVars, save_dir, callVars, planets, raw>>

\* PowerAnalyzer.analyze(factory_state, planet_id, include_accumulator_cycles).
AnalyzePower(planet_id, include_accumulator_cycles) ==
  /\ report' = AnalyzePowerReport(planets, planet_id, include_accumulator_cycles)
  /\ UNCHANGED <<streamVars, netVars, save_dir, callVars, planets, raw>>

\* The server from its start: the client was never connected, and the tools
\* are called again and again.
InitServer ==
  /\ save_dir \in {"none", "dir"}
  /\ NeverConnected
  /\ Quiet
SpecServer == InitServer /\ [][NextTools]_vars /\ WF_vars(NextTools)

\* The bottleneck analyzer on short lists of every kind of assembler; the
\* planets are numbered in the order in which they are added.
NextBottleneck ==
  \/ AddPlanet(Len(planets) + 1, NoPower)
  \/ \E a \in Assemblers : AddAssembler(a)
  \/ \E planet_id \in {0} \cup PlanetIds, d \in BOOLEAN : AnalyzeBottlenecks(planet_id, d)
SpecBottleneck == Init /\ [][NextBottleneck]_vars

\* The bottleneck analyzer on one planet with a long list of assemblers.
InitTopTen ==
  /\ save_dir = "none"
  /\ NeverConnected
  /\ NoCalls
  /\ planets = <<Planet(1)>>
  /\ report = NoReport
  /\ raw = NoRaw

NextTopTen ==
  \/ \E a \in {Common, Tied, Severe} : AppendCopy(a)
  \/ \E planet_id \in {0} \cup PlanetIds, d \in BOOLEAN : AnalyzeBottlenecks(planet_id, d)
SpecTopTen == InitTopTen /\ [][NextTopTen]_vars

\* The power analyzer.
NextPower ==
  \/ \E pid \in PlanetIds, pw \in PowerReadings \cup {NoPower} : AddPlanet(pid, pw)
  \/ \E planet_id \in {0} \cup PlanetIds, acc \in BOOLEAN : AnalyzePower(planet_id, acc)
SpecPower == Init /\ [][NextPower]_vars

\* Belts for the logistics analyzer.
MaxBelts == 2
MaxBeltRun == 6

Belt(id, item, throughput, max) ==
  [belt_id |-> id, item_type |-> item, throughput |-> throughput, max_throughput |-> max]

\* Thresholds, and loads at 96.7%, 95%, 85%, 83.3%, 50%, 40% and with no
\* maximum: on, between and off the borders of both thresholds.
Thresholds == {50, 95}
BeltLoads ==
  {<<"iron", 29, 30>>, <<"iron", 19, 20>>, <<"iron", 17, 20>>, <<"iron", 5, 6>>,
   <<"iron", 3, 6>>, <<"iron", 2, 5>>, <<"iron", 3, 0>>, <<"copper", 29, 30>>}
ItemFilters == {NoFilter, Filter({}), Filter({"iron"})}

\* Loads for long lists: two saturated item types that differ in saturation
\* and one item type that is not saturated.
RunLoads == {<<"iron", 29, 30>>, <<"copper", 30, 30>>, <<"stone", 3, 6>>}

RECURSIVE CountBelts(_)
CountBelts(pls) == IF pls = <<>> THEN 0 ELSE Len(Head(pls).belts) + CountBelts(Tail(pls))

\* A belt is appended to the belts of the newest planet; the belts of a planet
\* are numbered in the order in which they are added.
AddBelt(load, max) ==
  /\ planets # <<>>
  /\ CountBelts(planets) < max
  /\ planets' = [planets EXCEPT ![Len(planets)].belts =
                   Append(@, Belt(Len(@) + 1, load[1], load[2], load[3]))]
  /\ report' = NoReport
  /\ UNCHANGED <<streamVars, netVars, save_dir, callVars, raw>>

\* LogisticsAnalyzer.analyze(factory_state, planet_id, item_filter, saturation_threshold).
AnalyzeLogistics(planet_id, item_filter, threshold) ==
  /\ report' = AnalyzeLogisticsReport(planets, planet_id, item_filter, threshold)
  /\ UNCHANGED <<streamVars, netVars, save_dir, callVars, planets, raw>>

\* The logistics analyzer on short lists of every kind of belt.
NextLogistics ==
  \/ AddPlanet(Len(planets) + 1, NoPower)
  \/ \E load \in BeltLoads : AddBelt(load, MaxBelts)
  \/ \E planet_id \in {0} \cup PlanetIds, f \in ItemFilters, t \in Thresholds :
       AnalyzeLogistics(planet_id, f, t)
SpecLogistics == Init /\ [][NextLogistics]_vars

\* The logistics analyzer with its defaults on one planet with many belts.
NextCongestion ==
  \/ \E load \in RunLoads : AddBelt(load, MaxBeltRun)
  \/ AnalyzeLogistics(0, NoFilter, 95)
SpecCongestion == InitTopTen /\ [][NextCongestion]_vars

\* Records for the decoder.
MaxEntries == 2

PlanetKeys == {"1", "2", "abc"}
PlanetData == [Power : {"missing", "empty", "full"}, Production : {"missing", "empty", "bare_item"}]

\* A record arrives, with or without "Planets" and "Timestamp".
NewRecord(has_planets, ts) ==
  /\ raw' = [given |-> TRUE, has_planets |-> has_planets, Planets |-> <<>>, Timestamp |-> ts]
  /\ report' = NoReport
  /\ UNCHANGED <<streamVars, netVars, save_dir, callVars, planets>>

\* The record's "Planets" holds one more entry; the keys of a dict differ.
AddEntry(key, pdata) ==
  /\ raw.given /\ raw.has_planets
  /\ Len(raw.Planets) < MaxEntries
  /\ \A i \in 1..Len(raw.Planets) : raw.Planets[i][1] # key
  /\ raw' = [raw EXCEPT !.Planets = Append(@, <<key, pdata>>)]
  /\ report' = NoReport
  /\ UNCHANGED <<streamVars, netVars, save_dir, callVars, planets>>

\* FactoryState.from_realtime_data(data).
Decode ==
  /\ raw.given
  /\ report' = from_realtime_data(raw)
  /\ UNCHANGED <<streamVars, netVars, save_dir, callVars, planets, raw>>

NextDecoder ==
  \/ \E hp \in BOOLEAN, ts \in {"missing", "number"} : NewRecord(hp, ts)
  \/ \E key \in PlanetKeys, pdata \in PlanetData : AddEntry(key, pdata)
  \/ Decode
SpecDecoder == Init /\ [][NextDecoder]_vars

(***************************************************************************)
(* Properties of the state selector, the client and the tools.             *)
(***************************************************************************)
ErrorKinds == {"game_not_running", "analysis_failed", "snapshot_failed", "file_not_found", "parse_failed"}
LiveErrors == {"ConnectionError", "TimeoutError"}
ArchiveErrors == {"FileNotFoundError", "ValueError"}

\* What _get_factory_state has chosen and tried, in a call in progress or in
\* the call that returned last.
Selections == {sel[p] : p \in Callers} \cup {last.sel}

\* C1: _get_factory_state chooses its source once, at the top of the call:
\* the live client iff is_connected() is true at that moment, the archive
\* reader otherwise; no other source is tried in the same call, and what the
\* chosen source returns or raises is what the tool gets.
C1_SelectorChoosesOnce ==
  \A s \in Selections :
    s.source # "none" =>
      /\ s.source = "live" <=> s.top
      /\ s.source = "archive" <=> ~s.top
      /\ s.tried = {s.source}
      /\ s.out.kind = "value" => s.out.val.src = (IF s.source = "live" THEN "live" ELSE "save")
      /\ s.out.kind = "raise" =>
           s.out.exc \in (IF s.source = "live" THEN LiveErrors ELSE ArchiveErrors)

\* C1, witness: the archive was chosen by a client that is not connected, it
\* failed, and its error is what the tool call got, the live client untried.
C1_Witness ==
  /\ last.op \in StateTools
  /\ ~last.sel.top
  /\ last.sel.source = "archive"
  /\ last.sel.tried = {"archive"}
  /\ last.sel.out.kind = "raise"
  /\ last.sel.out.exc = "FileNotFoundError"
  /\ last.ret.kind = "error"

\* C2: is_connected() is true only if the client's connection is open now
\* and at least one state has been received.
C2_ConnectedMeansOpenAndReceived ==
  is_connected => (websocket # 0 /\ conn[websocket] = "open" /\ latest_state # NoState)

\* C3: a get_current_state() call that awaits connect() made that one attempt
\* only; when the attempt fails, the call raises ConnectionError in the same
\* step, with no sleep of the poll loop, and leaves the client disconnected.
C3_OneAttemptThenConnectionError ==
  [][\A p \in Callers :
       (pc[p] = "connect" /\ op[p] = "get_current_state" /\ pc'[p] # "connect") =>
         \/ websocket' # websocket /\ _connected'
         \/ /\ pc'[p] = "idle"
            /\ last'.op = "get_current_state"
            /\ last'.ret.kind = "raise"
            /\ last'.ret.exc = "ConnectionError"
            /\ last'.attempts = 1
            /\ last'.polls = 0
            /\ ~_connected'
            /\ ~is_connected']_vars

\* C3, witness: a get_current_state() call has failed with ConnectionError
\* after its one connect attempt.
C3_Witness ==
  /\ last.op = "get_current_state"
  /\ last.ret.kind = "raise"
  /\ last.ret.exc = "ConnectionError"
  /\ last.attempts = 1
  /\ ~_connected

\* A step in which a close() call returns.
CloseReturns ==
  /\ last'.op = "close"
  /\ last.op # "close" \/ \E p \in Callers : pc[p] = "close" /\ pc'[p] = "idle"

\* C4: when close() returns, no receive loop is left running or waiting to
\* run, no connection is open, is_connected() is false and latest_state is
\* what it was.
C4_CloseLeavesClientClosed ==
  [][CloseReturns =>
       /\ \A t \in ConnIds : task'[t].st \notin {"pending", "running"}
       /\ \A c \in ConnIds : conn'[c] # "open"
       /\ ~is_connected'
       /\ latest_state' = latest_state]_vars

\* C5: a tool call returns a report or an error object with an error kind
\* and a message; no exception leaves the tool.
C5_ToolsReturnReportOrError ==
  last.op \in Tools =>
    /\ last.ret.kind \in {"report", "error"}
    /\ last.ret.kind = "error" => (last.ret.exc \in ErrorKinds /\ last.ret.msg # "")
    /\ last.ret.kind = "report" => last.ret.parts # {}

\* C5, witness: an analyzer faulted in a tool call and the call returned an
\* error object.
C5_Witness ==
  /\ last.op = "analyze_power_grid"
  /\ last.args.faults = {"power"}
  /\ last.ret.kind = "error"
  /\ last.ret.exc = "analysis_failed"

\* C6: load_save_analysis with analysis_type "full" on a file that parses
\* returns the report of every analyzer that did not fail.
C6_FullAnalysisKeepsSiblingReports ==
  (last.op = "load_save_analysis" /\ last.args.type = "full" /\ last.parse.out.kind = "value") =>
    (Analyzers \ last.args.faults) \subseteq last.ret.parts

\* C7: parse_file on an existing .dsv file that cannot be decoded raises
\* DecodeFailed, and an empty FactoryState is returned only for a save that
\* has no planets.
C7_UndecodableSaveFailsWithDecodeFailed ==
  /\ (last.parse.file.exists /\ Lower(last.parse.file.suffix) = ".dsv"
        /\ last.parse.file.content = "corrupt") =>
       (last.parse.out.kind = "raise" /\ last.parse.out.exc = "DecodeFailed")
  /\ (last.parse.out.kind = "value" /\ last.parse.out.val.np = 0) =>
       last.parse.file.content = "empty_save"

\* C8: for every assembler on every selected planet the bottleneck analysis
\* detects at most one finding, and detects one exactly when the efficiency is
\* below 90 and a flag is set; the finding is input_starvation when
\* input_starved is set and output_blocked otherwise, its severity is
\* 100 - efficiency and lies in (0, 100], and its throughput loss is
\* theoretical_max - production_rate.  Nothing is detected on other planets.
C8_OneFindingPerReportableAssembler ==
  report.kind = "bottlenecks" =>
    /\ \A k \in 1..Len(report.detected) :
         \E i \in 1..Len(planets) :
           /\ planets[i].planet_id = report.detected[k].pid
           /\ Selected(planets[i], report.planet_id)
    /\ \A i \in 1..Len(planets) :
         Selected(planets[i], report.planet_id) =>
           \A j \in 1..Len(planets[i].assemblers) :
             LET a == planets[i].assemblers[j]
                 hits == {k \in 1..Len(report.detected) :
                            /\ report.detected[k].pid = planets[i].planet_id
                            /\ report.detected[k].idx = j}
                 low == \/ a.theoretical_max <= 0
                        \/ a.production_rate * 100 < 90 * a.theoretical_max
             IN  /\ Cardinality(hits) <= 1
                 /\ (hits # {}) <=> (low /\ (a.input_starved \/ a.output_blocked))
                 /\ \A k \in hits :
                      LET b == report.detected[k].b
                      IN  /\ b.bottleneck_type =
                               IF a.input_starved THEN "input_starvation" ELSE "output_blocked"
                          /\ IF a.theoretical_max > 0
                             THEN b.severity.n * a.theoretical_max =
                                    (100 * a.theoretical_max - 100 * a.production_rate) * b.severity.d
                             ELSE b.severity.n = 100 * b.severity.d
                          /\ b.severity.d > 0
                          /\ 0 < b.severity.n
                          /\ b.severity.n <= 100 * b.severity.d
                          /\ b.affected_throughput = a.theoretical_max - a.production_rate

\* An assembler at 40 of 100 with both flags set was reported as
\* input_starvation with severity 60 and loss 60, next to an assembler at
\* exactly 90% that was not reported.
C8_Witness ==
  /\ report.kind = "bottlenecks"
  /\ \E i \in 1..Len(planets) :
       /\ Selected(planets[i], report.planet_id)
       /\ Len(planets[i].assemblers) = 2
       /\ planets[i].assemblers[1] = Assembler(9, 10, TRUE, FALSE)
       /\ planets[i].assemblers[2] = Assembler(40, 100, TRUE, TRUE)
       /\ report.detected =
            <<[pid |-> planets[i].planet_id, idx |-> 2,
               b |-> [item_name |-> "unknown", bottleneck_type |-> "input_starvation",
                      severity |-> Frac(6000, 100), affected_throughput |-> 60]]>>
       /\ report.bottlenecks_found = 1

\* The place of the k-th detected finding among all of them: behind the more
\* severe ones and behind the equally severe ones detected before it.
C9_Place(k) ==
  1 + Cardinality({j \in 1..Len(report.detected) :
                     FracLess(report.detected[k].b.severity, report.detected[j].b.severity)})
    + Cardinality({j \in 1..(k - 1) :
                     FracEq(report.detected[k].b.severity, report.detected[j].b.severity)})

\* C9: the bottlenecks list is the first 10 of all findings sorted by severity
\* descending with equal severities in detection order, and bottlenecks_found
\* counts all findings.
C9_TopTenOfStableSort ==
  report.kind = "bottlenecks" =>
    /\ report.bottlenecks_found = Len(report.detected)
    /\ Len(report.bottlenecks) = IF Len(report.detected) < 10 THEN Len(report.detected) ELSE 10
    /\ \A k \in 1..Len(report.detected) :
         C9_Place(k) <= 10 => report.bottlenecks[C9_Place(k)] = report.detected[k].b

\* Eleven findings: the last detected is the most severe and is listed first,
\* two findings of equal severity and different type are listed in detection
\* order, and one finding is left out of the list but counted.
C9_Witness ==
  /\ report.kind = "bottlenecks"
  /\ report.bottlenecks_found = 11
  /\ Len(report.bottlenecks) = 10
  /\ report.detected[11].b.severity = Frac(9000, 100)
  /\ report.bottlenecks[1] = report.detected[11].b
  /\ report.detected[1].b.bottleneck_type = "output_blocked"
  /\ report.detected[2].b.bottleneck_type = "input_starvation"
  /\ report.bottlenecks[2] = report.detected[1].b
  /\ report.bottlenecks[3] = report.detected[2].b

\* C10: the power report has one entry per selected planet with power data;
\* the entry is surplus iff generation - consumption >= 0 and deficit
\* otherwise; exactly the deficit entries carry a recommendation: one thermal
\* plant for a deficit below 10, floor(d/15)+1 fusion plants for 10 <= d < 50,
\* high capacity from 50 on; planets_with_deficit counts the deficit entries.
C10_PowerStatusAndRecommendation ==
  report.kind = "power" =>
    /\ Len(report.planets) =
         Cardinality({i \in 1..Len(planets) :
                        Selected(planets[i], report.planet_id) /\ planets[i].power.present})
    /\ \A i \in 1..Len(planets) :
         (Selected(planets[i], report.planet_id) /\ planets[i].power.present) =>
           \E k \in 1..Len(report.planets) :
             LET e == report.planets[k]
                 g == planets[i].power.generation_mw
                 c == planets[i].power.consumption_mw
                 d == c - g
             IN  /\ e.planet_id = planets[i].planet_id
                 /\ e.status \in {"surplus", "deficit"}
                 /\ (e.status = "surplus") <=> (g - c >= 0)
                 /\ (e.recommendation.tier # "none") <=> (e.status = "deficit")
                 /\ (e.status = "deficit" /\ d < 10) =>
                      (e.recommendation.tier = "thermal" /\ e.recommendation.plants = 1)
                 /\ (e.status = "deficit" /\ 10 <= d /\ d < 50) =>
                      /\ e.recommendation.tier = "fusion"
                      /\ 15 * (e.recommendation.plants - 1) <= d
                      /\ d < 15 * e.recommendation.plants
                 /\ (e.status = "deficit" /\ d >= 50) => e.recommendation.tier = "high_capacity"
    /\ report.planets_with_deficit =
         Cardinality({k \in 1..Len(report.planets) : report.planets[k].status = "deficit"})

\* Generation 100 and consumption 120: deficit with 2 fusion plants, next to
\* a planet in balance that is marked surplus and carries no recommendation.
C10_Witness ==
  /\ report.kind = "power"
  /\ Len(report.planets) = 2
  /\ report.planets[1].generation_mw = 100
  /\ report.planets[1].consumption_mw = 120
  /\ report.planets[1].status = "deficit"
  /\ report.planets[1].recommendation.tier = "fusion"
  /\ report.planets[1].recommendation.plants = 2
  /\ report.planets[2].surplus_mw = 0
  /\ report.planets[2].status = "surplus"
  /\ report.planets[2].recommendation = NoRecommendation
  /\ report.planets_with_deficit = 1

\* The belts of the lists of a logistics report, as <<planet, belt>> pairs.
C11_In(list) == {<<list[k].planet_id, list[k].belt_id>> : k \in 1..Len(list)}

\* C11: every belt of a selected planet that passes the item filter is placed
\* in saturated iff saturation >= threshold and in near_saturation iff
\* threshold - 10 <= saturation < threshold; no belt of any planet is in both
\* lists, neither as placed nor as reported, and a listed belt has the
\* saturation of its list.
C11_BeltInAtMostOneList ==
  report.kind = "logistics" =>
    /\ C11_In(report.placed_saturated) \cap C11_In(report.placed_near) = {}
    /\ C11_In(report.saturated_belts) \cap C11_In(report.near_saturation) = {}
    /\ C11_In(report.saturated_belts) \subseteq C11_In(report.placed_saturated)
    /\ C11_In(report.near_saturation) \subseteq C11_In(report.placed_near)
    /\ \A i \in 1..Len(planets) : \A j \in 1..Len(planets[i].belts) :
         LET b == planets[i].belts[j]
             id == <<planets[i].planet_id, b.belt_id>>
             t == report.threshold
             high == IF b.max_throughput > 0
                     THEN b.throughput * 100 >= t * b.max_throughput ELSE 0 >= t
             band == IF b.max_throughput > 0
                     THEN b.throughput * 100 >= (t - 10) * b.max_throughput ELSE 0 >= t - 10
             passes == ~report.item_filter.given \/ b.item_type \in report.item_filter.items
         IN  /\ id \in C11_In(report.placed_saturated) => high
             /\ id \in C11_In(report.placed_near) => (band /\ ~high)
             /\ (Selected(planets[i], report.planet_id) /\ passes) =>
                  /\ id \in C11_In(report.placed_saturated) <=> high
                  /\ id \in C11_In(report.placed_near) <=> (band /\ ~high)

\* At threshold 95 a belt at 29 of 30 is saturated, next to a belt at exactly
\* 85% that is near saturation.
C11_Witness ==
  /\ report.kind = "logistics"
  /\ report.threshold = 95
  /\ Len(planets) = 1
  /\ Len(planets[1].belts) = 2
  /\ planets[1].belts[1] = Belt(1, "iron", 17, 20)
  /\ planets[1].belts[2] = Belt(2, "iron", 29, 30)
  /\ C11_In(report.saturated_belts) = {<<1, 2>>}
  /\ C11_In(report.near_saturation) = {<<1, 1>>}
  /\ report.saturated_belts[1].recommendation = "parallel_lines"

\* The saturated belts of the analyzed planets in the order of iteration
\* over the belts, and the item types among them.
C12_Saturated == report.placed_saturated
C12_Items == {C12_Saturated[k].item : k \in 1..Len(C12_Saturated)}
C12_Count(item) == Cardinality({k \in 1..Len(C12_Saturated) : C12_Saturated[k].item = item})
C12_First(item) == CHOOSE k \in 1..Len(C12_Saturated) :
  C12_Saturated[k].item = item /\ \A j \in 1..(k - 1) : C12_Saturated[j].item # item

\* C12: with n the number of all saturated belts, n = 0 gives the healthy
\* note, 1 <= n <= 4 the targeted-upgrade note, n >= 5 the systematic-upgrade
\* note plus the item type carried by the most saturated belts, a tie going
\* to the item type seen first in the iteration over the belts.
C12_GlobalRecommendationByCount ==
  report.kind = "logistics" =>
    LET n == Len(C12_Saturated)
        notes == report.recommendations
    IN  /\ n = 0 => (Len(notes) = 1 /\ notes[1].note = "healthy")
        /\ (1 <= n /\ n <= 4) => (Len(notes) = 1 /\ notes[1].note = "targeted" /\ notes[1].n = n)
        /\ n >= 5 =>
             /\ Len(notes) = 2
             /\ notes[1].note = "systematic"
             /\ notes[1].n = n
             /\ notes[2].note = "most_congested"
             /\ \A other \in C12_Items :
                  \/ C12_Count(other) < C12_Count(notes[2].item)
                  \/ /\ C12_Count(other) = C12_Count(notes[2].item)
                     /\ C12_First(notes[2].item) <= C12_First(other)

\* C13: from_realtime_data never raises: for every record, also one without
\* "Planets" or "Timestamp", with missing or empty per-planet fields or with
\* a planet key that is not an integer string, it returns a FactoryState with
\* one planet per entry in which missing fields are zero or empty.
C13_DecoderIsTotal ==
  report.kind = "decoded" =>
    /\ ~report.raised
    /\ Len(report.planets) = Len(raw.Planets)
    /\ raw.Timestamp = "missing" => report.timestamp = 0
    /\ \A i \in 1..Len(raw.Planets) :
         /\ raw.Planets[i][2].Power = "missing" => ~report.planets[i].power.present
         /\ raw.Planets[i][2].Power = "empty" => report.planets[i].power = Power(0, 0)
         /\ raw.Planets[i][2].Production \in {"missing", "empty"} =>
              report.planets[i].production = <<>>
         /\ report.planets[i].assemblers = <<>>
         /\ report.planets[i].belts = <<>>

\* The receive loop t ends in this step by an error: a frame arrived and was
\* not applied (it failed to decode), or the connection it iterates (or is
\* about to iterate) failed.
C14_LoopFails(t) ==
  /\ task[t].st \in {"pending", "running"}
  /\ task'[t].st = "done"
  /\ \/ task[t].st = "running" /\ nframes' # nframes /\ conn[task[t].ws] = "open"
     \/ task[t].st = "running" /\ conn[task[t].ws] = "open" /\ conn'[task[t].ws] = "closed_err"
     \/ task[t].st = "pending" /\ conn[websocket] = "closed_err"

\* C14: when a receive loop hits a transport error or a frame that fails to
\* decode, it stops for good, is_connected() is false afterwards and
\* latest_state is still the last frame that decoded; a frame is applied only
\* by a running loop of its open connection, and each applied frame is the
\* newest one delivered.
C14_LoopErrorDisconnects ==
  [][/\ \A t \in ConnIds :
          /\ C14_LoopFails(t) =>
               /\ ~_connected'
               /\ ~is_connected'
               /\ latest_state' = latest_state
          /\ task[t].st = "done" => task'[t].st = "done"
     /\ latest_state' # latest_state =>
          /\ latest_state'.src = "live"
          /\ latest_state'.id = nframes'
          /\ nframes' = nframes + 1
          /\ conn[latest_state'.conn] = "open"
          /\ \E t \in ConnIds : task[t].st = "running" /\ task[t].ws = latest_state'.conn
    ]_vars

\* The second frame of an open connection failed to decode: the loop is
\* over, the flag is down and the first frame is still the latest state.
C14_Witness ==
  /\ task[1].st = "done"
  /\ conn[1] = "open"
  /\ nframes = 2
  /\ latest_state = LiveState(1, 1)
  /\ ~_connected
  /\ ~is_connected

\* C15: under every interleaving of concurrent calls at most one receive
\* loop task and one open connection exist; latest_state is written only by
\* the loop of the current connection, and only that loop (or one that is
\* just starting) takes the connected flag down.
C15_OneLoopOneConnection ==
  [][/\ Cardinality({t \in ConnIds : task'[t].st \in {"pending", "running"}}) <= 1
     /\ Cardinality({c \in ConnIds : conn'[c] = "open"}) <= 1
     /\ latest_state' # latest_state => latest_state'.conn = websocket
     /\ (pc' = pc /\ _connected /\ ~_connected') =>
          \E t \in ConnIds :
            /\ task'[t] # task[t]
            /\ task[t].st = "running" => task[t].ws = websocket
    ]_vars

\* C16: from the server's initial state, with tools being called for ever,
\* a tool call is reached in which _get_factory_state takes its state from
\* the live client.
C16_LiveBranchReached == <>(last.sel.source = "live")

\* A call of get_current_state() returns a FactoryState in this step.
C17_ReturnsState ==
  /\ last'.op = "get_current_state"
  /\ last'.ret.kind = "value"
  /\ last' # last \/ \E p \in Callers : pc[p] # "idle" /\ pc'[p] = "idle"

\* C17: a FactoryState returned by get_current_state() was received on the
\* connection that is open when the call returns, never on an earlier one.
C17_ReturnedStateIsOfOpenConnection ==
  [][C17_ReturnsState =>
       /\ last'.ret.val.src = "live"
       /\ last'.ret.val.conn = websocket'
       /\ conn'[websocket'] = "open"
    ]_vars

=============================================================================
